---- MODULE Spec2Model ----
(***************************************************************************)
(* PyOctaveBand (src/PyOctave.py): the octave-band pipeline               *)
(*   getANSIFrequencies -> _deleteOuters -> _downsamplingfactor            *)
(*   -> _butterSOSfilter -> SPL loop                                       *)
(* as a state machine.                                                     *)
(*                                                                         *)
(* Numbers.  Frequencies are integers in Hz.  Every float the generator    *)
(* builds is fr * G ** e with e a multiple of 1/12 for the fractions 1, 2  *)
(* and 3, so a power of G is held by its exponent in twelfths and turned   *)
(* into Hz by the table GTab (the value rounded to the nearest Hz).        *)
(* Products of powers add exponents, np.log is the inverse table lookup.   *)
(* fs / 2 is never rounded: x > fs / 2 is written 2 * x > fs.              *)
(***************************************************************************)
EXTENDS Integers, Sequences, FiniteSets, TLC

\* ---------------------------------------------------------------- bounds
\* limits[0] and limits[1] lie within MaxK twelfths of an octave ratio of fr
MaxK == 6
\* longest BandSet handed to _deleteOuters / _downsamplingfactor on their own
MaxBands == 3
\* band values of those stand-alone BandSets: centers 3, 6, ..., 3 * MaxVal
MaxVal == 4
\* largest small sample rate tried on _downsamplingfactor on its own
MaxFs == 104

\* ------------------------------------------------------------- constants
\* exponents of G are held in twelfths: 1/(2b) is a whole number of them
\* for b = 1, 2, 3
Twelfths == 12
\* the fractions tried: one odd branch twice, the even branch once
Fractions == {1, 2, 3}

\* fr * G ** (k / 12) for k = -60 .. 60, with fr = 1000 and G = 10 ** (3/10),
\* rounded to Hz
GTab ==
  << 32, 33, 35, 38, 40, 42, 45, 47, 50, 53, 56, 60, 63, 67, 71, 75, 79, 84,
     89, 94, 100, 106, 112, 119, 126, 133, 141, 150, 158, 168, 178, 188, 200,
     211, 224, 237, 251, 266, 282, 299, 316, 335, 355, 376, 398, 422, 447,
     473, 501, 531, 562, 596, 631, 668, 708, 750, 794, 841, 891, 944, 1000,
     1059, 1122, 1189, 1259, 1334, 1413, 1496, 1585, 1679, 1778, 1884, 1995,
     2113, 2239, 2371, 2512, 2661, 2818, 2985, 3162, 3350, 3548, 3758, 3981,
     4217, 4467, 4732, 5012, 5309, 5623, 5957, 6310, 6683, 7079, 7499, 7943,
     8414, 8913, 9441, 10000, 10593, 11220, 11885, 12589, 13335, 14125,
     14962, 15849, 16788, 17783, 18836, 19953, 21135, 22387, 23714, 25119,
     26607, 28184, 29854, 31623 >>

GridLo == 0 - ((Len(GTab) - 1) \div 2)
GridHi == (Len(GTab) - 1) \div 2

\* G ** (e / 12) * fr
Hz(e) == GTab[e - GridLo + 1]

\* the exponent (in twelfths) of a value built as a power of G
PosOf(v) == CHOOSE k \in GridLo..GridHi : Hz(k) = v

\* v * G ** (e / 12): 0 stays 0, a power of G moves on the grid
MulG(v, e) == IF v = 0 THEN 0 ELSE Hz(PosOf(v) + e)

\* np.log(f / fr) / np.log(G) in 24ths: 2k when f is exactly fr * G ** (k/12),
\* 2k + 1 when f lies strictly between two neighbouring grid values
LogG(f) ==
  LET k == CHOOSE j \in GridLo..(GridHi - 1) : Hz(j) <= f /\ f < Hz(j + 1)
  IN  IF f = Hz(k) THEN 2 * k ELSE 2 * k + 1

\* np.round(num / den): to the nearest integer, halves to the even one
np_round(num, den) ==
  LET q == num \div den
      r == num % den
  IN  IF 2 * r < den THEN q
      ELSE IF 2 * r > den THEN q + 1
      ELSE IF q % 2 = 0 THEN q ELSE q + 1

\* ----------------------------------------------------- getANSIFrequencies
\* x solved from ANSI s1.11 eq. 3 (odd b) or eq. 4 (even b);
\* ln(f/fr)/ln(G) = LogG(f) / 24
_initindex(f, b) ==
  IF b % 2 = 1
    THEN np_round(b * LogG(f) + 30 * 2 * Twelfths, 2 * Twelfths)
    ELSE np_round(2 * b * LogG(f) + 59 * 2 * Twelfths, 2 * 2 * Twelfths)

\* exponent of G (in twelfths) of the center-frequency ratio of index x
_ratio(x, b) ==
  IF b % 2 = 1
    THEN (Twelfths * (x - 30)) \div b
    ELSE (Twelfths * (2 * x - 59)) \div (2 * b)

\* exponent of G (in twelfths) of the band-edge ratio G ** (1 / (2b))
_bandedge(b) == Twelfths \div (2 * b)

\* the while loop of getANSIFrequencies: freq_x is the last frequency
\* appended (0 before the first pass), freq the array built so far
RECURSIVE AnsiLoop(_, _, _, _, _)
\* variant: the loop tests the last frequency of the array, so the first
\* band is tested too and the loop may run no pass at all
AnsiLoop_testsFirst(x, freq_x, freq, b, fmax) ==
  IF MulG(freq[Len(freq)], _bandedge(b)) < fmax
    THEN LET nx == x + 1
             nf == Hz(_ratio(nx, b))
         IN  AnsiLoop(nx, nf, Append(freq, nf), b, fmax)
    ELSE freq

AnsiLoop(x, freq_x, freq, b, fmax) ==
  IF MulG(freq_x, _bandedge(b)) < fmax
    THEN LET nx == x + 1
             nf == Hz(_ratio(nx, b))
         IN  AnsiLoop(nx, nf, Append(freq, nf), b, fmax)
    ELSE freq

getANSIFrequencies(b, lim) ==
  LET x    == _initindex(lim[1], b)
      freq == AnsiLoop(x, 0, << Hz(_ratio(x, b)) >>, b, lim[2])
  IN  [ x0     |-> x,
        freq   |-> freq,
        freq_d |-> [i \in 1..Len(freq) |-> MulG(freq[i], 0 - _bandedge(b))],
        freq_u |-> [i \in 1..Len(freq) |-> MulG(freq[i], _bandedge(b))] ]

\* ---------------------------------------------------------- _deleteOuters
\* np.delete(s, idx): s without the (1-based) positions in idx, order kept
RECURSIVE np_delete(_, _)
np_delete(s, idx) ==
  IF s = << >> THEN << >>
  ELSE LET n    == Len(s)
           init == np_delete(SubSeq(s, 1, n - 1), idx)
       IN  IF n \in idx THEN init ELSE Append(init, s[n])

\* np.where(np.array(freq_u) > fs / 2), as 1-based positions
np_where(fu, rate) == {i \in 1..Len(fu) : 2 * fu[i] > rate}

\* any(idx[0]): some element of the index array is truthy, i.e. is not the
\* (0-based) index 0
any_idx(idx) == \E i \in idx : i - 1 # 0

\* variant: freq_d is left as it was when bands are removed
_deleteOuters_keepsLower(bs, rate) ==
  LET idx == np_where(bs.freq_u, rate)
  IN  IF any_idx(idx)
        THEN [ freq   |-> np_delete(bs.freq, idx),
               freq_d |-> bs.freq_d,
               freq_u |-> np_delete(bs.freq_u, idx),
               warned |-> 1 ]
        ELSE [ freq   |-> bs.freq,
               freq_d |-> bs.freq_d,
               freq_u |-> bs.freq_u,
               warned |-> 0 ]

\* variant: the center frequency, not the upper edge, is held against fs / 2
_deleteOuters_byCenter(bs, rate) ==
  LET idx == np_where(bs.freq, rate)
  IN  IF any_idx(idx)
        THEN [ freq   |-> np_delete(bs.freq, idx),
               freq_d |-> np_delete(bs.freq_d, idx),
               freq_u |-> np_delete(bs.freq_u, idx),
               warned |-> 1 ]
        ELSE [ freq   |-> bs.freq,
               freq_d |-> bs.freq_d,
               freq_u |-> bs.freq_u,
               warned |-> 0 ]

_deleteOuters(bs, rate) ==
  LET idx == np_where(bs.freq_u, rate)
  IN  IF any_idx(idx)
        THEN [ freq   |-> np_delete(bs.freq, idx),
               freq_d |-> np_delete(bs.freq_d, idx),
               freq_u |-> np_delete(bs.freq_u, idx),
               warned |-> 1 ]
        ELSE [ freq   |-> bs.freq,
               freq_d |-> bs.freq_d,
               freq_u |-> bs.freq_u,
               warned |-> 0 ]

\* ----------------------------------------------------- _downsamplingfactor
Min2(a, b) == IF a <= b THEN a ELSE b

Max2(a, b) == IF a >= b THEN a ELSE b

\* ((fs / 2) / freq).astype('int'): the quotient cut to an integer
astype_int(rate, f) == rate \div (2 * f)

\* variant: the lower clamp is missing
clamp_upperOnly(q) == Min2(q, 50)

\* the clamp of the loop body: max(min(factor[ii], 50), 1)
clamp(q) == Max2(Min2(q, 50), 1)

_downsamplingfactor(fu, rate) ==
  [ii \in 1..Len(fu) |-> clamp(astype_int(rate, fu[ii]))]

\* --------------------------------------------------------- _butterSOSfilter
\* f / (Fsd / 2) with Fsd = fs / k lies strictly inside (0, 1); signal.butter
\* raises ValueError for a digital corner outside that interval
WnInside(f, rate, k) == 0 < f /\ 2 * f * k < rate

\* the signal.butter call of one band succeeds
butter_ok(lower, upper, rate, k) ==
  WnInside(lower, rate, k) /\ WnInside(upper, rate, k)

\* ------------------------------------------------------------------ state
VARIABLES
  pc,        \* the statement of octaveFilter about to run
  fraction,  \* argument b
  limits,    \* argument limits, << f_min, f_max >>
  fs,        \* argument fs
  ansi,      \* what getANSIFrequencies returned (_genfreqs, line 114)
  freq,      \* center frequencies after _deleteOuters (line 117)
  freq_d,    \* lower edges after _deleteOuters
  freq_u,    \* upper edges after _deleteOuters
  warnings,  \* calls of _printwarn so far
  factor,    \* the downsampling factors
  sos,       \* the filters designed so far, one entry per band
  spl,       \* the SPL entries computed so far, one per band
  result     \* << >> until octaveFilter returns, then << spl, freq >>

vars == << pc, fraction, limits, fs, ansi, freq, freq_d, freq_u, warnings,
           factor, sos, spl, result >>

NoBands == [x0 |-> 0, freq |-> << >>, freq_d |-> << >>, freq_u |-> << >>]

\* ----------------------------------------------------------------- inputs
\* limits: grid values and their right neighbours, f_min < f_max
LimitFreqs == {Hz(k) + d : k \in (0 - MaxK)..MaxK, d \in {0, 1}}

\* sample rates: far below every band, twice and four times a band edge
\* (and one above), the usual audio rates
FsValues ==
  {2 * Hz(k) + d : k \in {-36, -6, 0, 6, 12, 18}, d \in {0, 1}}
    \cup {4 * Hz(k) : k \in {-6, 0, 6}}
    \cup {8000, 44100}

\* ------------------------------------------------------------ octaveFilter
Init ==
  /\ pc = "getANSIFrequencies"
  /\ fraction \in Fractions
  /\ limits \in {<< lo, hi >> \in LimitFreqs \X LimitFreqs : lo < hi}
  /\ fs \in FsValues
  /\ ansi = NoBands
  /\ freq = << >> /\ freq_d = << >> /\ freq_u = << >>
  /\ warnings = 0
  /\ factor = << >>
  /\ sos = << >>
  /\ spl = << >>
  /\ result = << >>

\* _genfreqs, line 114
GetANSIFrequencies ==
  /\ pc = "getANSIFrequencies"
  /\ ansi' = getANSIFrequencies(fraction, limits)
  /\ pc' = "_deleteOuters"
  /\ UNCHANGED << fraction, limits, fs, freq, freq_d, freq_u, warnings,
                  factor, sos, spl, result >>

\* _genfreqs, line 117
DeleteOuters ==
  /\ pc = "_deleteOuters"
  /\ LET r == _deleteOuters(ansi, fs)
     IN  /\ freq' = r.freq
         /\ freq_d' = r.freq_d
         /\ freq_u' = r.freq_u
         /\ warnings' = warnings + r.warned
  /\ pc' = "_downsamplingfactor"
  /\ UNCHANGED << fraction, limits, fs, ansi, factor, sos, spl, result >>

\* octaveFilter, line 39
DownsamplingFactor ==
  /\ pc = "_downsamplingfactor"
  /\ factor' = _downsamplingfactor(freq_u, fs)
  /\ pc' = "_butterSOSfilter"
  /\ UNCHANGED << fraction, limits, fs, ansi, freq, freq_d, freq_u,
                  warnings, sos, spl, result >>

\* variant: a band whose design fails is skipped and the loop goes on
DesignBand_isolatesFailure ==
  /\ pc = "_butterSOSfilter"
  /\ Len(sos) < Len(freq)
  /\ LET idx == Len(sos) + 1
     IN  sos' = Append(sos, [band |-> freq[idx], q |-> factor[idx]])
  /\ UNCHANGED << pc, fraction, limits, fs, ansi, freq, freq_d, freq_u,
                  warnings, factor, spl, result >>

\* one pass of the loop of _butterSOSfilter: the band after the ones designed
DesignBand ==
  /\ pc = "_butterSOSfilter"
  /\ Len(sos) < Len(freq)
  /\ LET idx == Len(sos) + 1
     IN  IF butter_ok(freq_d[idx], freq_u[idx], fs, factor[idx])
           THEN /\ sos' = Append(sos, [band |-> freq[idx], q |-> factor[idx]])
                /\ pc' = pc
           ELSE /\ sos' = sos
                /\ pc' = "raised"
  /\ UNCHANGED << fraction, limits, fs, ansi, freq, freq_d, freq_u,
                  warnings, factor, spl, result >>

\* _butterSOSfilter returns (show = 0): on to the SPL loop
DesignDone ==
  /\ pc = "_butterSOSfilter"
  /\ Len(sos) = Len(freq)
  /\ pc' = "spl"
  /\ UNCHANGED << fraction, limits, fs, ansi, freq, freq_d, freq_u,
                  warnings, factor, sos, spl, result >>

\* one pass of the SPL loop: decimate by factor[jj], filter with sos[jj]
SplBand ==
  /\ pc = "spl"
  /\ Len(spl) < Len(freq)
  /\ LET jj == Len(spl) + 1
     IN  spl' = Append(spl, [band |-> sos[jj].band, q |-> factor[jj]])
  /\ UNCHANGED << pc, fraction, limits, fs, ansi, freq, freq_d, freq_u,
                  warnings, factor, sos, result >>

\* return spl.tolist(), freq
Return ==
  /\ pc = "spl"
  /\ Len(spl) = Len(freq)
  /\ result' = << spl, freq >>
  /\ pc' = "done"
  /\ UNCHANGED << fraction, limits, fs, ansi, freq, freq_d, freq_u,
                  warnings, factor, sos, spl >>

Next ==
  \/ GetANSIFrequencies
  \/ DeleteOuters
  \/ DownsamplingFactor
  \/ DesignBand
  \/ DesignDone
  \/ SplBand
  \/ Return

Spec == Init /\ [][Next]_vars

\* ------------------------------------------- _deleteOuters called on its own
\* a band of the stand-alone BandSets: center 3v, edges one Hz either side
TestBand(v) == [freq |-> 3 * v, freq_d |-> 3 * v - 1, freq_u |-> 3 * v + 1]

\* BandSets of 1..MaxBands bands, strictly increasing by index
TestBandSets ==
  LET picks == {s \in UNION {[1..n -> 1..MaxVal] : n \in 1..MaxBands} :
                  \A i \in 1..(Len(s) - 1) : s[i] < s[i + 1]}
  IN  {[ x0     |-> 0,
         freq   |-> [i \in 1..Len(s) |-> TestBand(s[i]).freq],
         freq_d |-> [i \in 1..Len(s) |-> TestBand(s[i]).freq_d],
         freq_u |-> [i \in 1..Len(s) |-> TestBand(s[i]).freq_u] ] : s \in picks}

InitClip ==
  /\ pc = "_deleteOuters"
  /\ fraction = 1
  /\ limits = << 1, 3 * MaxVal + 1 >>
  /\ fs \in 1..(2 * (3 * MaxVal + 1) + 1)
  /\ ansi \in TestBandSets
  /\ freq = << >> /\ freq_d = << >> /\ freq_u = << >>
  /\ warnings = 0
  /\ factor = << >>
  /\ sos = << >>
  /\ spl = << >>
  /\ result = << >>

NextClip == DeleteOuters

SpecClip == InitClip /\ [][NextClip]_vars

\* ------------------------------------- _downsamplingfactor called on its own
\* upper edges tried: small ones, and the two of the documented example
PlanUppers == {3, 4, 20, 16000}

PlanBandSets ==
  {s \in UNION {[1..n -> PlanUppers] : n \in 1..2} :
     \A i \in 1..(Len(s) - 1) : s[i] < s[i + 1]}

InitPlan ==
  /\ pc = "_downsamplingfactor"
  /\ fraction = 1
  /\ limits = << 1, 16000 >>
  /\ fs \in (1..MaxFs) \cup {299, 300, 305, 306, 307, 44100}
  /\ ansi = NoBands
  /\ freq_u \in PlanBandSets
  /\ freq = [i \in 1..Len(freq_u) |-> freq_u[i] - 1]
  /\ freq_d = [i \in 1..Len(freq_u) |-> freq_u[i] - 2]
  /\ warnings = 0
  /\ factor = << >>
  /\ sos = << >>
  /\ spl = << >>
  /\ result = << >>

NextPlan == DownsamplingFactor

SpecPlan == InitPlan /\ [][NextPlan]_vars

\* ================================================================ claims
\* the control points after each stage
AfterANSI == pc # "getANSIFrequencies"

AfterClip == pc \notin {"getANSIFrequencies", "_deleteOuters"}

AfterPlan ==
  pc \notin {"getANSIFrequencies", "_deleteOuters", "_downsamplingfactor"}

\* the bands of s whose upper edge (in fu) is at most rate / 2, in order
RECURSIVE WithinNyquist(_, _, _)
WithinNyquist(s, fu, rate) ==
  IF s = << >> THEN << >>
  ELSE LET n    == Len(s)
           head == WithinNyquist(SubSeq(s, 1, n - 1), SubSeq(fu, 1, n - 1), rate)
       IN  IF 2 * fu[n] <= rate THEN Append(head, s[n]) ELSE head

\* upper edge of the standard band of index x
UpperEdge(x, b) == Hz(_ratio(x, b) + _bandedge(b))

\* C1: _deleteOuters returns exactly the bands with freq_u <= fs/2, in
\* order, the same indices gone from freq, freq_d and freq_u, for a BandSet
\* of any length >= 1
C1_ClipKeepsExactlyWithinNyquist ==
  AfterClip =>
    /\ freq = WithinNyquist(ansi.freq, ansi.freq_u, fs)
    /\ freq_d = WithinNyquist(ansi.freq_d, ansi.freq_u, fs)
    /\ freq_u = WithinNyquist(ansi.freq_u, ansi.freq_u, fs)

\* C2: the last band returned by getANSIFrequencies is the first one,
\* counting from the starting index, whose upper edge is >= f_max: exactly
\* one returned band has its upper edge >= f_max
C2_StopsAtFirstBandReachingMax ==
  AfterANSI =>
    LET n == Len(ansi.freq)
    IN  /\ \A i \in 1..n : ansi.freq_u[i] = UpperEdge(ansi.x0 + i - 1, fraction)
        /\ ansi.freq_u[n] >= limits[2]
        /\ \A i \in 1..(n - 1) : ansi.freq_u[i] < limits[2]

\* C3: the first band returned is the lowest-indexed standard band whose
\* upper edge is >= f_min: the band below it has its upper edge < f_min
C3_FirstBandIsLowestCoveringMin ==
  AfterANSI =>
    /\ ansi.freq_u[1] = UpperEdge(ansi.x0, fraction)
    /\ ansi.freq_u[1] >= limits[1]
    /\ UpperEdge(ansi.x0 - 1, fraction) < limits[1]

\* C7: one call of _deleteOuters warns exactly once when some band of the
\* input has freq_u > fs/2, and not at all otherwise
C7_WarnsOnceIffSomeBandOverNyquist ==
  AfterClip =>
    warnings = IF \E i \in 1..Len(ansi.freq_u) : 2 * ansi.freq_u[i] > fs
                 THEN 1 ELSE 0

\* C9: for every band that survives the clipper, with the planner's factor,
\* both normalized corners lie strictly inside (0, 1), so no filter design
\* fails
C9_PlannedCornersStrictlyInside ==
  AfterPlan =>
    /\ pc # "raised"
    /\ \A i \in 1..Len(freq) :
         /\ 0 < 2 * freq_d[i] * factor[i] /\ 2 * freq_d[i] * factor[i] < fs
         /\ 0 < 2 * freq_u[i] * factor[i] /\ 2 * freq_u[i] * factor[i] < fs

\* a BandSet: three sequences of one length, lower edge < center < upper
\* edge in every band, centers strictly increasing
BandSetOK(c, d, u) ==
  /\ Len(c) = Len(d) /\ Len(d) = Len(u)
  /\ \A i \in 1..Len(c) : d[i] < c[i] /\ c[i] < u[i]
  /\ \A i \in 1..(Len(c) - 1) : c[i] < c[i + 1]

\* C4: after getANSIFrequencies and again after _deleteOuters the three
\* sequences form a BandSet, and every band of the clipped set is a band of
\* the generated set with its own lower and upper edge
C4_BandSetInvariant ==
  /\ AfterANSI => BandSetOK(ansi.freq, ansi.freq_d, ansi.freq_u)
  /\ AfterClip =>
       /\ BandSetOK(freq, freq_d, freq_u)
       /\ \A i \in 1..Len(freq) : \E j \in 1..Len(ansi.freq) :
            /\ freq[i] = ansi.freq[j]
            /\ freq_d[i] = ansi.freq_d[j]
            /\ freq_u[i] = ansi.freq_u[j]

\* bands were removed and at least two are left
C4_Witness ==
  /\ AfterClip
  /\ warnings = 1
  /\ Len(freq) >= 2
  /\ Len(freq) < Len(ansi.freq)

\* floor((fs/2) / u) for u > 0: the n with n * u <= fs/2 < (n + 1) * u
FloorHalfRateOver(rate, u) ==
  CHOOSE n \in 0..rate : 2 * u * n <= rate /\ rate < 2 * u * (n + 1)

\* C5: every factor is min(max(floor((fs/2) / freq_u[i]), 1), 50), so an
\* integer in 1..50; at fs = 44100 the edge 16000 gets 1 and the edge 20
\* gets 50
C5_FactorIsClampedFloor ==
  AfterPlan =>
    /\ Len(factor) = Len(freq_u)
    /\ \A i \in 1..Len(freq_u) :
         /\ factor[i] = Min2(Max2(FloorHalfRateOver(fs, freq_u[i]), 1), 50)
         /\ factor[i] \in 1..50
         /\ (fs = 44100 /\ freq_u[i] = 16000) => factor[i] = 1
         /\ (fs = 44100 /\ freq_u[i] = 20) => factor[i] = 50

\* the documented example, both bands in one call
C5_Witness ==
  /\ AfterPlan
  /\ fs = 44100
  /\ freq_u = << 20, 16000 >>
  /\ factor = << 50, 1 >>

\* every generated band has its upper edge above fs / 2
AllOverNyquist ==
  /\ AfterANSI
  /\ \A i \in 1..Len(ansi.freq_u) : 2 * ansi.freq_u[i] > fs

\* C6: when every generated band is above fs/2 the clipper leaves no band,
\* the planner, the filter bank and the SPL loop run over zero bands, nothing
\* raises, and octaveFilter returns an empty SPL list and an empty frequency
\* list
C6_ZeroBandsRunThrough ==
  AllOverNyquist =>
    /\ pc # "raised"
    /\ pc # "done" => ENABLED Next
    /\ AfterClip => (freq = << >> /\ freq_d = << >> /\ freq_u = << >>)
    /\ factor = << >> /\ sos = << >> /\ spl = << >>
    /\ pc = "done" => result = << << >>, << >> >>

\* the call with every band above fs/2 has returned
C6_Witness ==
  /\ AllOverNyquist
  /\ pc = "done"
  /\ warnings = 1
  /\ result = << << >>, << >> >>

\* C8: a failed filter design ends the call: nothing is returned, no SPL entry
\* exists for any band, no step follows; an SPL entry is computed only after
\* every band's filter is designed, and only when every design succeeded
C8_DesignFailureAbortsWholeCall ==
  /\ pc = "raised" => (spl = << >> /\ result = << >> /\ ~ENABLED Next)
  /\ spl # << >> => Len(sos) = Len(freq)
  /\ (pc \in {"spl", "done"}) =>
       \A i \in 1..Len(freq) : butter_ok(freq_d[i], freq_u[i], fs, factor[i])
  /\ result # << >> => pc = "done"

\* the design of a later band failed after an earlier band's succeeded
C8_Witness ==
  /\ pc = "raised"
  /\ Len(sos) >= 1
  /\ Len(sos) < Len(freq)

\* C10: every band handed to the planner and returned has freq_u <= fs/2;
\* getANSIFrequencies returns at least two bands, so the over-Nyquist index
\* set is never exactly the first index alone
C10_NoBandAboveNyquistDownstream ==
  /\ AfterANSI =>
       /\ Len(ansi.freq) >= 2
       /\ np_where(ansi.freq_u, fs) # {1}
  /\ AfterClip => \A i \in 1..Len(freq_u) : 2 * freq_u[i] <= fs
  /\ pc = "done" =>
       /\ result[2] = freq
       /\ Len(result[1]) = Len(freq)

\* the first band already reaches f_max and is above fs/2: only the second
\* band makes the clipper act
C10_Witness ==
  /\ AfterClip
  /\ ansi.freq_u[1] >= limits[2]
  /\ 2 * ansi.freq_u[1] > fs
  /\ freq = << >>

====
